---------------------------- MODULE Spec2Model ----------------------------
(***************************************************************************)
(* The force-directed graph components of the repository:                  *)
(*   FullNetworkGraph (src/components/FullNetworkGraph.tsx),               *)
(*   NetworkGraph     (src/components/NetworkGraph.tsx),                   *)
(*   GraphView        (src/components/GraphView.tsx).                      *)
(* One mounted component instance is modelled; comp says which of the      *)
(* three it is.  A React effect is run in the same step as the state       *)
(* change that triggers it (cleanup of the previous run first).            *)
(*                                                                         *)
(* Scales are in hundredths (k = 100 is scale 1.0), alpha in units of 1e-5.*)
(***************************************************************************)
EXTENDS Integers, Sequences, FiniteSets, TLC

VARIABLES
  comp,           \* "FNG" | "NG" | "GV": which component this instance is
  mounted,        \* the component is mounted
  unmounted,      \* the component was mounted and has been unmounted
  nodes,          \* props.nodes (FNG) / props.data.nodes (NG)
  edges,          \* props.edges (FNG) / props.data.links (NG)
  centerNode,     \* props.centerNode: the hinted id, or NoHint (FNG)
  path,           \* props.explanation.path when it is an array (GV)
  pathKind,       \* "array" | "null" | "other": what explanation.path is (GV)
  selectedTypes,  \* useState selectedTypes (FNG)
  dimensions,     \* useState dimensions: the width (FNG, NG)
  svgNodes,       \* the node data joined to the svg (what is on the surface)
  svgEdges,       \* the link data joined to the svg
  circles,        \* per drawn node: r (in half pixels) and whether the glow
                  \* filter is set on its circle
  entered,        \* the circle the pointer is over, with the attributes it
                  \* had when the pointer entered it
  crashed,        \* the render effect threw (React tears the tree down)
  warnings,       \* number of warnings collected while building the graph
  zoomReady,      \* svgSelectionRef.current && zoomRef.current
  k,              \* scale of the zoom transform stored on the svg element
  gk,             \* scale in the transform attribute of the current container g
  fitPending,     \* the 'initial zoom to fit' timeout of the latest effect run
                  \* is pending
  staleFits,      \* pending fit timeouts of earlier effect runs
  alpha,          \* simulation.alpha() of the current simulation
  alphaTarget,    \* simulation.alphaTarget()
  simRunning,     \* the current simulation's timer is scheduled
  ticks,          \* ticks performed by the current simulation
  anchor,         \* x of the current simulation's centering force
  pos,            \* x of each node of the current simulation
  fx,             \* fx of each node of the current simulation, or NoPos
  staleSims,      \* simulations of earlier effect runs that were never stopped
  staleTicked,    \* a simulation of an earlier effect run has ticked since
  drags,          \* per pointer: the node its drag gesture holds, or 0
  lastPtr,        \* per node: the latest event.x a drag delivered, or NoPos
  heldTicks,      \* ticks since the simulation was last reheated by a drag
  hoveredNode,    \* useState hoveredNode (FNG): <<>> for null, else <<node>>
  selectedNode,   \* useState selectedNode (NG): <<>> for null, else <<node>>
  lastClicked,    \* the node the onNodeClick prop was last called with
  lastClick,      \* the latest click: "node" | "canvas" | "close" | "none"
  reloads,        \* number of snapshot replacements so far
  \* PredictionAnalysis (SearchHistory.tsx)
  history,        \* useState history: the ids of the items, newest first
  stored,         \* localStorage 'neurograph-history': <<>> when the key is
                  \* absent, else <<the list saved>>
  clock,          \* Date.now() of the latest call
  deletes,        \* number of handleDeleteHistoryItem calls so far
  \* DiseaseDetailView (App.tsx)
  diseaseId,      \* props.diseaseId
  loading,        \* useState loading
  data,           \* useState data: <<>> for null, else <<the disease it is of>>
  mainPending,    \* the diseases whose /diseases/<id> request is in flight
  activeTab,      \* useState activeTab
  networkData,    \* useState networkData: <<>> for null, else <<the disease
                  \* it was fetched for>>
  networkLoading, \* useState networkLoading
  netPending,     \* the getFullNetwork request in flight: <<>> or <<disease>>
  \* KnowledgeExplorer
  selectedExample, \* useState selectedExample
  isLoading,      \* useState isLoading
  customSearch,   \* useState customSearch: the text of the input
  customGraph,    \* useState customGraph: <<>> for null, else <<the query it
                  \* was generated for>>
  isCustomMode,   \* useState isCustomMode
  timers,         \* per example id: pending timeouts of handleExampleSelect
  searches        \* per query: pending handleCustomSearch calls

propVars == <<nodes, edges, centerNode, path, pathKind>>
domVars  == <<svgNodes, svgEdges, circles, entered, crashed, warnings>>
viewVars == <<zoomReady, k, gk, fitPending, staleFits>>
simVars  == <<alpha, alphaTarget, simRunning, ticks, anchor, pos, fx, staleSims,
              staleTicked>>
dragVars == <<drags, lastPtr, heldTicks>>
uiVars   == <<hoveredNode, selectedNode, lastClicked, lastClick>>
histVars == <<history, stored, clock, deletes>>
ddvVars  == <<diseaseId, loading, data, mainPending, activeTab, networkData,
              networkLoading, netPending>>
keVars   == <<selectedExample, isLoading, customSearch, customGraph,
              isCustomMode, timers, searches>>
appVars  == <<histVars, ddvVars, keVars>>
vars == <<comp, mounted, unmounted, nodes, edges, centerNode, path, pathKind,
          selectedTypes, dimensions, svgNodes, svgEdges, circles, entered,
          crashed, warnings, zoomReady, k, gk, fitPending, staleFits, alpha,
          alphaTarget, simRunning, ticks, anchor, pos, fx, staleSims, staleTicked, drags,
          lastPtr, heldTicks, hoveredNode, selectedNode, lastClicked, lastClick,
          reloads, appVars>>

----------------------------------------------------------------------------
(* Bounds of the explored inputs *)

MaxNodes == 2
MaxEdges == 1
MaxPathNodes == 2
MaxReloads == 1

NodeIds == {"1", "2"}
\* an id no node record carries: an edge naming it dangles
DanglingId == "9"
Types == {"drug", "disease"}
Names == {"a", "b"}
NoHint == "none"

SeqsUpTo(S, n) == UNION {[1..m -> S] : m \in 0..n}

NodeRecs == [id : NodeIds, type : Types, isCenter : BOOLEAN]
EdgeRecs == [source : NodeIds \cup {DanglingId},
             target : NodeIds \cup {DanglingId},
             relationship : {"treats"}]

NodeLists == SeqsUpTo(NodeRecs, MaxNodes)
EdgeLists == SeqsUpTo(EdgeRecs, MaxEdges)

\* The scenario of the spec's section 8: a center drug "1", a disease "2",
\* one edge between them.
ScenarioNodes ==
  << [id |-> "1", type |-> "drug", isCenter |-> TRUE],
     [id |-> "2", type |-> "disease", isCenter |-> FALSE] >>
ScenarioEdges ==
  << [source |-> "1", target |-> "2", relationship |-> "treats"] >>

----------------------------------------------------------------------------
(* FullNetworkGraph: filter and clone (render effect, lines 158-172) *)

Ids(ns) == {ns[i].id : i \in DOMAIN ns}

\* const nodeTypes = [...new Set(nodes.map(n => n.type))]
nodeTypes(ns) == {ns[i].type : i \in DOMAIN ns}

\* the filter without the exemption of center entities (a faulty variant)
filteredNodes_NoCenterExempt(ns, sel) ==
  LET keep(n) == n.type \in sel
  IN IF sel = {} THEN ns ELSE SelectSeq(ns, keep)

filteredNodes(ns, sel) ==
  LET keep(n) == n.type \in sel \/ n.isCenter
  IN IF sel = {} THEN ns ELSE SelectSeq(ns, keep)

filteredNodeIds(ns, sel) == Ids(filteredNodes(ns, sel))

filteredEdges(ns, es, sel) ==
  LET ids == filteredNodeIds(ns, sel)
      keep(e) == e.source \in ids /\ e.target \in ids
  IN SelectSeq(es, keep)

\* simEdges without the copy (a variant the code does not implement): the
\* simulation is handed the objects of props.edges, so forceLink has replaced
\* the endpoints of every edge drawn before by node objects, and such an edge
\* fails the test against the set of ids
simEdges_Shared(ns, es, sel) ==
  LET resolved(e) == \E i \in DOMAIN svgEdges : svgEdges[i] = e
      fresh(e) == ~resolved(e)
  IN filteredEdges(ns, SelectSeq(es, fresh), sel)

\* filteredNodes.map(d => ({ ...d })): a field-for-field copy of every record
simNodes(ns, sel) == filteredNodes(ns, sel)
simEdges(ns, es, sel) == filteredEdges(ns, es, sel)

\* isSelected of the sidebar button of a type (line 404)
isSelected(sel, t) == sel = {} \/ t \in sel

\* r of a node circle (line 274)
FNG_radius(n) == IF n.isCenter THEN 25 ELSE 18

----------------------------------------------------------------------------
(* FullNetworkGraph: style resolution (lines 32-79, 191-235, 272-325).  A
   gradient or marker id is the pair of its prefix and its suffix.  The
   category and relation strings explored are no property names of
   Object.prototype. *)

\* the keys of NODE_COLORS (lines 33-57)
NodeColorKeys ==
  {"Compound", "Drug", "drug", "Disease", "disease", "Gene", "gene",
   "target_gene", "upregulated_gene", "downregulated_gene", "interacting_gene",
   "Pathway", "pathway", "Anatomy", "anatomy", "SideEffect", "Symptom",
   "symptom", "PharmacologicClass", "class", "similar_disease", "similar_drug",
   "default"}

\* the keys of EDGE_COLORS (lines 60-76)
EdgeColorKeys ==
  {"TREATS", "PALLIATES", "BINDS", "TARGETS", "ASSOCIATES", "RESEMBLES",
   "UPREGULATES", "DOWNREGULATES", "LOCALIZES", "PRESENTS", "PARTICIPATES",
   "INTERACTS", "INCLUDES", "EXPRESSES", "default"}

\* the keys of typeMap (lines 297-318)
GlyphKeys ==
  {"Compound", "Drug", "drug", "Disease", "disease", "Gene", "gene",
   "target_gene", "upregulated_gene", "downregulated_gene", "interacting_gene",
   "Pathway", "pathway", "Anatomy", "anatomy", "Symptom", "symptom",
   "similar_disease", "similar_drug", "class"}

\* category and relation strings of the explored graphs: table keys, strings
\* that differ from a key only in case, unknown ones, one with white space
StyleTypes == {"drug", "Gene", "protein", "side effect"}
StyleRels == {"TREATS", "treats", "CAUSES"}

\* NODE_COLORS[type] || NODE_COLORS['default']: the entry that is used
getNodeColor(type) == IF type \in NodeColorKeys THEN type ELSE "default"
\* EDGE_COLORS[rel] || EDGE_COLORS['default']
getEdgeColor(rel) == IF rel \in EdgeColorKeys THEN rel ELSE "default"
\* typeMap[d.type] || the bullet
glyph(type) == IF type \in GlyphKeys THEN type ELSE "bullet"

\* type.replace(/\s+/g, '-') on the explored strings
dashed(type) == IF type = "side effect" THEN "side-effect" ELSE type

gradientId(type) == <<"gradient", dashed(type)>>
markerId(rel) == <<"arrow", rel>>

\* the radialGradient and marker elements appended to defs (lines 191-215)
definedGradients == {gradientId(key) : key \in NodeColorKeys}
definedMarkers == {markerId(key) : key \in EdgeColorKeys}

\* fill of a node circle (lines 275-278): the template string is never empty,
\* so the "|| colors.fill" alternative is never taken
fillRef(n) == gradientId(n.type)
\* marker-end of an edge line (line 234)
markerRef(e) == markerId(e.relationship)

----------------------------------------------------------------------------
(* NetworkGraph: clone and link (render effect, lines 80-87) *)

\* data.nodes.map(d => ({ ...d })), data.links.map(d => ({ ...d }))
NG_nodes(ns) == ns
NG_links(es) == es

\* d3.forceLink(links).id(d => d.id) resolves both ends of every link among the
\* simulation's nodes when the force is registered, and throws
\* "node not found" for an id no node carries.
forceLinkThrows(ns, ls) ==
  \E i \in DOMAIN ls : ls[i].source \notin Ids(ns) \/ ls[i].target \notin Ids(ns)

----------------------------------------------------------------------------
(* GraphView: the path parser (render effect, lines 21-57) *)

\* A path element: a node object (id, name), a relationship label, or a value
\* with no id (null, a node object without id); id = "" is the falsy id.
PathNodeRecs == [id : NodeIds, name : Names, label : {""}]
PathNull == [id |-> "", name |-> "", label |-> ""]
PathRel == [id |-> "", name |-> "", label |-> "r"]

\* [Node, Rel, Node, ...] with n node slots
PathsOf(n) ==
  IF n = 0 THEN {<<>>}
  ELSE {[i \in 1..(2 * n - 1) |-> IF i % 2 = 1 THEN f[(i + 1) \div 2] ELSE PathRel] :
          f \in [1..n -> PathNodeRecs \cup {PathNull}]}
Paths == UNION {PathsOf(n) : n \in 0..MaxPathNodes}

\* nodeData && typeof nodeData === 'object' && nodeData.id
validNode(e) == e.id # ""

\* { ...nodeData, x: ..., y: ... } without the seeded position
GV_node(e) == [id |-> e.id, name |-> e.name]

\* if (!nodeIds.has(id)) { nodes.push(...); nodeIds.add(id) }
GV_pushNode(ns, e) ==
  IF e.id \in Ids(ns) THEN ns ELSE Append(ns, GV_node(e))

\* The for loop of lines 28-56 from 1-based index i on; ns, ls are the nodes
\* and links pushed so far.
RECURSIVE parsePath(_, _, _, _)
parsePath(p, i, ns, ls) ==
  IF i > Len(p) THEN <<ns, ls>>
  ELSE IF ~validNode(p[i]) THEN parsePath(p, i + 2, ns, ls)
  ELSE LET ns1 == GV_pushNode(ns, p[i])
       IN IF i + 2 <= Len(p) /\ validNode(p[i + 2])
          THEN parsePath(p, i + 2, GV_pushNode(ns1, p[i + 2]),
                         Append(ls, [source |-> p[i].id, target |-> p[i + 2].id,
                                     label |-> p[i + 1].label]))
          ELSE parsePath(p, i + 2, ns1, ls)

\* nodes and links after the parse; a path that is not an array leaves both empty
GV_nodes(kind, p) == IF kind = "array" THEN parsePath(p, 1, <<>>, <<>>)[1] ELSE <<>>
GV_links(kind, p) == IF kind = "array" THEN parsePath(p, 1, <<>>, <<>>)[2] ELSE <<>>

----------------------------------------------------------------------------
(* d3-zoom as the components configure it *)

\* .scaleExtent([0.2, 4]) and .scaleExtent([0.3, 4])
FNG_scaleExtent == <<20, 400>>
NG_scaleExtent == <<30, 400>>
scaleExtent(c) == IF c = "FNG" THEN FNG_scaleExtent ELSE NG_scaleExtent

\* d3.zoomIdentity.k and d3.zoomIdentity.translate(0, 0).scale(0.9).k
zoomIdentity == 100
fitScale == 90

Min(a, b) == IF a < b THEN a ELSE b
Max(a, b) == IF a > b THEN a ELSE b

\* a scaleBy that ignores the scale extent (a faulty variant)
scaleBy_Unclamped(c, k0, num, den) == (k0 * num) \div den

\* zoom.scaleBy / the wheel, dblclick and touch gestures: the new scale is
\* max(extent[0], min(extent[1], k0 * factor)); the factor is num/den
scaleBy(c, k0, num, den) ==
  Max(scaleExtent(c)[1], Min(scaleExtent(c)[2], (k0 * num) \div den))

\* factors of the wheel / pinch / dblclick gestures that are explored
GestureFactors == {<<1, 2>>, <<2, 1>>, <<1, 100>>, <<100, 1>>}

----------------------------------------------------------------------------
(* d3-force as the components use it: the defaults of d3.forceSimulation *)

\* alpha = 1, alphaMin = 0.001, in units of 1e-5
alphaInit == 100000
alphaMin == 100
\* simulation.alphaTarget(0.3) of the drag start handlers
alphaTargetDrag == 30000

\* a tick that does not cool (a faulty variant)
alphaStep_NoDecay(a, target) == a

\* tick(): alpha += (alphaTarget - alpha) * alphaDecay, where
\* alphaDecay = 1 - alphaMin^(1/300) = 0.022762 = 11381 / 500000
alphaStep(a, target) == a + ((target - a) * 11381) \div 500000

\* Coordinates are abstract: SeedPos is where d3.forceSimulation puts a node
\* that carries no x (a function of its index), ForcedPos is wherever the
\* forces have moved it since, PointerXs are the event.x of drag moves.
NoPos == "null"
SeedPos == "seed"
ForcedPos == "forced"
PointerXs == {"xA", "xB"}

\* useState({ width: 800, height: 600 }), and the fixed width of GraphView
InitWidth == 800
GV_width == 600
\* widths the wrapper may have
Widths == {InitWidth, 1000}

\* the identifiers of the pointers (the mouse, a touch) that can hold a drag
Pointers == {"p1", "p2"}
NoDrags == [p \in Pointers |-> 0]
\* a drag behaviour that never counts another gesture (a faulty variant)
active_Alone(ds) == 0

\* number of drag gestures in progress in the drag behaviour (event.active)
active(ds) == Cardinality({p \in Pointers : ds[p] # 0})

\* tick(): a node with fx takes fx (and velocity 0), any other node is moved
\* by its velocity
tickPos(ps, fs) ==
  [i \in DOMAIN ps |-> IF fs[i] = NoPos THEN ForcedPos ELSE fs[i]]

\* d3.forceSimulation(...): a fresh, running simulation
simCreated ==
  /\ alpha' = alphaInit
  /\ alphaTarget' = 0
  /\ simRunning' = TRUE
  /\ ticks' = 0

\* forceSimulation(nodes) seeds the n nodes it is given, which carry no x, fx;
\* forceCenter(width / 2, ...); the drag behaviour of the run starts idle
initializeNodes(n, w) ==
  /\ pos' = [i \in 1..n |-> SeedPos]
  /\ fx' = [i \in 1..n |-> NoPos]
  /\ anchor' = w \div 2
  /\ drags' = NoDrags
  /\ lastPtr' = [i \in 1..n |-> NoPos]
  /\ heldTicks' = 0

\* return () => { simulation.stop() } of the previous effect run, with no new
\* simulation created
simStopped ==
  /\ simRunning' = FALSE
  /\ UNCHANGED <<alpha, alphaTarget, ticks>>

\* A new simulation is created while the previous one keeps its timer (no
\* cleanup stops it).
simLeaked ==
  /\ staleSims' = staleSims + (IF simRunning THEN 1 ELSE 0)
  /\ simCreated

----------------------------------------------------------------------------
(* The render effects; each is given the props and state of the render that
   triggers it.  The cleanup of the previous run (where the component has
   one) is part of the step. *)

\* pending fit timeouts of earlier runs are counted up to this many
MaxStaleFits == 1

\* d.val of a NetworkGraph node; 0 stands for a missing val and for val 0,
\* which the code's tests (d.val || 1, d.val ? ...) do not tell apart
NG_val(n) == IF "val" \in DOMAIN n THEN n.val ELSE 0

\* the attributes of a node circle as the render effect draws it, radii in
\* half pixels: FNG lines 272-281, NG lines 160 and 168, GraphView line 117
drawnCircle(n) ==
  IF comp = "FNG" THEN [r |-> 2 * FNG_radius(n), glow |-> n.isCenter]
  ELSE IF comp = "NG"
  THEN [r |-> 16 + 3 * (IF NG_val(n) # 0 THEN NG_val(n) ELSE 1), glow |-> TRUE]
  ELSE [r |-> 30, glow |-> FALSE]

\* FNG lines 329-333: r 30 / 22 and the glow filter; NG lines 175-179: r only
hoverCircle(n, c) ==
  IF comp = "FNG" THEN [r |-> IF n.isCenter THEN 60 ELSE 44, glow |-> TRUE]
  ELSE [r |-> IF NG_val(n) # 0 THEN 24 + 3 * NG_val(n) ELSE 32, glow |-> c.glow]

\* FNG lines 337-341: r 25 / 18, the glow for the center only; NG lines
\* 182-186: r only
leftCircle(n, c) ==
  IF comp = "FNG" THEN [r |-> IF n.isCenter THEN 50 ELSE 36, glow |-> n.isCenter]
  ELSE [r |-> IF NG_val(n) # 0 THEN 16 + 3 * NG_val(n) ELSE 24, glow |-> c.glow]

\* the circles appended for the joined data; no new circle has received a
\* pointer event yet
circlesDrawn ==
  /\ circles' = [i \in DOMAIN svgNodes' |-> drawnCircle(svgNodes'[i])]
  /\ entered' = <<>>

\* FullNetworkGraph, lines 135-373
FNG_renderEffect(ns, es, sel) ==
  /\ mounted' = TRUE
  /\ UNCHANGED <<crashed, warnings, staleSims, staleTicked>>
  /\ IF Len(ns) = 0
     THEN \* line 136: return before the svg is cleared
          /\ simStopped
          /\ UNCHANGED <<svgNodes, svgEdges, circles, entered, zoomReady, k, gk,
                         fitPending,                         staleFits, anchor, pos, fx, dragVars>>
     ELSE /\ svgNodes' = simNodes(ns, sel)
          /\ circlesDrawn
          /\ svgEdges' = simEdges(ns, es, sel)
          /\ zoomReady' = TRUE
          /\ k' = k              \* svg.call(zoom) keeps the element's transform
          /\ gk' = zoomIdentity  \* line 146: a new g without a transform
          /\ fitPending' = TRUE  \* setTimeout(..., 500); none is ever cleared
          /\ staleFits' = Min(MaxStaleFits,
                              staleFits + (IF fitPending THEN 1 ELSE 0))
          /\ simCreated
          /\ initializeNodes(Len(svgNodes'), dimensions')

\* NetworkGraph, lines 56-253
NG_renderEffect(ns, ls) ==
  /\ UNCHANGED <<warnings, staleSims, staleTicked, fitPending, staleFits, k>>
  /\ IF Len(ns) = 0
     THEN \* line 57: return before the svg is cleared
          /\ mounted' = TRUE
          /\ simStopped
          /\ UNCHANGED <<svgNodes, svgEdges, circles, entered, zoomReady, gk,
                         crashed, anchor,                         pos, fx, dragVars>>
     ELSE IF forceLinkThrows(NG_nodes(ns), NG_links(ls))
     THEN \* line 84 throws after the svg was cleared (60), the refs set (61, 77)
          \* and the simulation created (83); nothing is drawn, no cleanup is
          \* registered, and the uncaught error unmounts the tree
          /\ crashed' = TRUE
          /\ mounted' = FALSE
          /\ svgNodes' = <<>>
          /\ circlesDrawn
          /\ svgEdges' = <<>>
          /\ zoomReady' = TRUE
          /\ gk' = zoomIdentity
          /\ simCreated
          /\ initializeNodes(Len(ns), dimensions')
     ELSE /\ mounted' = TRUE
          /\ crashed' = FALSE
          /\ svgNodes' = NG_nodes(ns)
          /\ circlesDrawn
          /\ svgEdges' = NG_links(ls)
          /\ zoomReady' = TRUE
          /\ gk' = zoomIdentity  \* line 67: a new g without a transform
          /\ simCreated
          /\ initializeNodes(Len(ns), dimensions')

\* GraphView, lines 12-148: no cleanup is returned
GV_renderEffect(kind, p) ==
  /\ mounted' = TRUE
  /\ UNCHANGED <<crashed, warnings, viewVars, staleTicked>>
  /\ IF kind = "null"
     THEN \* line 13: return
          UNCHANGED <<svgNodes, svgEdges, circles, entered, alpha, alphaTarget,
                      simRunning, ticks,                      staleSims, anchor, pos, fx, dragVars>>
     ELSE /\ svgNodes' = GV_nodes(kind, p)
          /\ circlesDrawn
          /\ svgEdges' = GV_links(kind, p)
          /\ simLeaked
          /\ initializeNodes(Len(svgNodes'), GV_width)

----------------------------------------------------------------------------
(* Mounting, replacing the snapshot (new props), resizing, unmounting *)

MountFNG(NS, ES, HS) ==
  /\ comp = "FNG" /\ ~mounted /\ ~crashed /\ ~unmounted
  /\ dimensions' = dimensions
  /\ \E ns \in NS, es \in ES, h \in HS :
       /\ nodes' = ns /\ edges' = es /\ centerNode' = h
       /\ FNG_renderEffect(ns, es, selectedTypes)
  /\ UNCHANGED <<comp, appVars, unmounted, path, pathKind, selectedTypes,
                 uiVars, reloads>>

MountNG(NS, ES) ==
  /\ comp = "NG" /\ ~mounted /\ ~crashed /\ ~unmounted
  /\ dimensions' = dimensions
  /\ \E ns \in NS, es \in ES :
       /\ nodes' = ns /\ edges' = es
       /\ NG_renderEffect(ns, es)
  /\ UNCHANGED <<comp, appVars, unmounted, centerNode, path, pathKind, selectedTypes,
                 uiVars, reloads>>

MountGV(KS, PS) ==
  /\ comp = "GV" /\ ~mounted /\ ~crashed /\ ~unmounted
  /\ \E kind \in KS, p \in PS :
       /\ pathKind' = kind
       /\ path' = IF kind = "array" THEN p ELSE <<>>
       /\ GV_renderEffect(kind, path')
  /\ UNCHANGED <<comp, appVars, unmounted, nodes, edges, centerNode, selectedTypes,
                 dimensions, uiVars, reloads>>

SetPropsFNG(NS, ES) ==
  /\ comp = "FNG" /\ mounted /\ reloads < MaxReloads
  /\ dimensions' = dimensions
  /\ \E ns \in NS, es \in ES :
       /\ nodes' = ns /\ edges' = es
       /\ FNG_renderEffect(ns, es, selectedTypes)
  /\ reloads' = reloads + 1
  /\ UNCHANGED <<comp, appVars, unmounted, centerNode, path, pathKind, selectedTypes, uiVars>>

SetPropsNG(NS, ES) ==
  /\ comp = "NG" /\ mounted /\ reloads < MaxReloads
  /\ dimensions' = dimensions
  /\ \E ns \in NS, es \in ES :
       /\ nodes' = ns /\ edges' = es
       /\ NG_renderEffect(ns, es)
  /\ reloads' = reloads + 1
  /\ UNCHANGED <<comp, appVars, unmounted, centerNode, path, pathKind, selectedTypes, uiVars>>

SetPropsGV(KS, PS) ==
  /\ comp = "GV" /\ mounted /\ reloads < MaxReloads
  /\ \E kind \in KS, p \in PS :
       /\ pathKind' = kind
       /\ path' = IF kind = "array" THEN p ELSE <<>>
       /\ GV_renderEffect(kind, path')
  /\ reloads' = reloads + 1
  /\ UNCHANGED <<comp, appVars, unmounted, nodes, edges, centerNode, selectedTypes,
                 dimensions, uiVars>>

\* FNG lines 100-112, NG lines 19-32: handleResize stores a new dimensions
\* object (on every window resize, and once after mounting); dimensions is a
\* dependency of the render effect
handleResize(w) ==
  /\ comp \in {"FNG", "NG"} /\ mounted
  /\ dimensions' = w
  /\ IF comp = "FNG"
     THEN FNG_renderEffect(nodes, edges, selectedTypes)
     ELSE NG_renderEffect(nodes, edges)
  /\ UNCHANGED <<comp, appVars, unmounted, propVars, selectedTypes, uiVars, reloads>>

\* React unmounts the component: the svg goes away and the cleanup of the
\* last effect run is called (FNG lines 370-372, NG lines 250-252, none in GV)
Unmount ==
  /\ mounted
  /\ mounted' = FALSE
  /\ unmounted' = TRUE
  /\ svgNodes' = <<>>
  /\ circlesDrawn
  /\ svgEdges' = <<>>
  /\ drags' = NoDrags
  /\ hoveredNode' = <<>>
  /\ selectedNode' = <<>>
  /\ IF comp = "GV"
     THEN UNCHANGED <<alpha, alphaTarget, simRunning, ticks>>
     ELSE simStopped
  /\ UNCHANGED <<comp, appVars, propVars, selectedTypes, dimensions, crashed, warnings,
                 viewVars, anchor, pos, fx, staleSims, staleTicked, lastPtr,
                 heldTicks, lastClicked, lastClick, reloads>>

----------------------------------------------------------------------------
(* FullNetworkGraph: the filter buttons (lines 375-383, 402-408) *)

toggleType_Set(sel, type) == IF type \in sel THEN sel \ {type} ELSE sel \cup {type}

\* One button per type of the current node list; selectedTypes is a dependency
\* of the render effect, and every click makes a new Set.
toggleType(type) ==
  /\ comp = "FNG" /\ mounted
  /\ type \in nodeTypes(nodes)
  /\ dimensions' = dimensions
  /\ selectedTypes' = toggleType_Set(selectedTypes, type)
  /\ FNG_renderEffect(nodes, edges, selectedTypes')
  /\ UNCHANGED <<comp, appVars, unmounted, propVars, uiVars, reloads>>

----------------------------------------------------------------------------
(* The viewport: zoom buttons, gestures, the delayed initial fit.  Every
   zoom event of the current zoom behaviour writes the transform to the
   current container (FNG lines 150-152, NG lines 72-74). *)

\* lines 114-118 (FNG), 34-38 (NG): scaleBy 1.3
handleZoomIn ==
  /\ mounted /\ zoomReady /\ comp \in {"FNG", "NG"}
  /\ k' = scaleBy(comp, k, 13, 10)
  /\ gk' = k'
  /\ UNCHANGED <<comp, appVars, mounted, unmounted, propVars, selectedTypes, dimensions,
                 domVars, zoomReady, fitPending, staleFits, simVars, dragVars,
                 uiVars, reloads>>

\* lines 120-124 (FNG), 40-44 (NG): scaleBy 0.7
handleZoomOut ==
  /\ mounted /\ zoomReady /\ comp \in {"FNG", "NG"}
  /\ k' = scaleBy(comp, k, 7, 10)
  /\ gk' = k'
  /\ UNCHANGED <<comp, appVars, mounted, unmounted, propVars, selectedTypes, dimensions,
                 domVars, zoomReady, fitPending, staleFits, simVars, dragVars,
                 uiVars, reloads>>

\* a reset that also restarts the simulation (a faulty variant)
handleReset_Reheat ==
  /\ mounted /\ zoomReady /\ comp \in {"FNG", "NG"}
  /\ k' = zoomIdentity
  /\ gk' = k'
  /\ alpha' = alphaInit
  /\ simRunning' = TRUE
  /\ UNCHANGED <<comp, appVars, mounted, unmounted, propVars, selectedTypes, dimensions,
                 domVars, zoomReady, fitPending, staleFits, alphaTarget, ticks,
                 anchor, pos, fx, staleSims, staleTicked, dragVars, uiVars,
                 reloads>>

\* lines 126-133 (FNG), 46-53 (NG): zoom.transform to d3.zoomIdentity
handleReset ==
  /\ mounted /\ zoomReady /\ comp \in {"FNG", "NG"}
  /\ k' = zoomIdentity
  /\ gk' = k'
  /\ UNCHANGED <<comp, appVars, mounted, unmounted, propVars, selectedTypes, dimensions,
                 domVars, zoomReady, fitPending, staleFits, simVars, dragVars,
                 uiVars, reloads>>

\* wheel, pinch, double click on the svg the zoom behaviour was attached to
zoomGesture(f) ==
  /\ mounted /\ zoomReady /\ comp \in {"FNG", "NG"}
  /\ k' = scaleBy(comp, k, f[1], f[2])
  /\ gk' = k'
  /\ UNCHANGED <<comp, appVars, mounted, unmounted, propVars, selectedTypes, dimensions,
                 domVars, zoomReady, fitPending, staleFits, simVars, dragVars,
                 uiVars, reloads>>

\* FNG lines 362-368: the timeout of the latest effect run fires; its zoom
\* behaviour is the current one
initialFit ==
  /\ comp = "FNG" /\ mounted /\ fitPending
  /\ k' = fitScale
  /\ gk' = k'
  /\ fitPending' = FALSE
  /\ UNCHANGED <<comp, appVars, mounted, unmounted, propVars, selectedTypes, dimensions,
                 domVars, zoomReady, staleFits, simVars, dragVars, uiVars,
                 reloads>>

\* FNG lines 362-368: a timeout of an earlier effect run fires; it sets the
\* transform stored on the svg through the zoom behaviour of its own run,
\* whose listener writes to the container of that run, which line 139 removed
staleFit ==
  /\ comp = "FNG" /\ mounted /\ staleFits > 0
  /\ k' = fitScale
  /\ staleFits' = staleFits - 1
  /\ UNCHANGED <<comp, appVars, mounted, unmounted, propVars, selectedTypes, dimensions,
                 domVars, zoomReady, gk, fitPending, simVars, dragVars, uiVars,
                 reloads>>

----------------------------------------------------------------------------
(* The simulation's timer *)

\* step(): tick(), then stop once alpha < alphaMin
simTick ==
  /\ simRunning
  /\ alpha' = alphaStep(alpha, alphaTarget)
  /\ ticks' = ticks + 1
  /\ simRunning' = ~(alpha' < alphaMin)
  /\ pos' = tickPos(pos, fx)
  /\ heldTicks' = IF active(drags) > 0 THEN heldTicks + 1 ELSE heldTicks
  /\ UNCHANGED <<comp, appVars, mounted, unmounted, propVars, selectedTypes, dimensions,
                 domVars, viewVars, alphaTarget, anchor, fx, staleSims,
                 staleTicked, drags, lastPtr, uiVars, reloads>>

\* a simulation that was never stopped ticks
staleSimTick ==
  /\ staleSims > 0
  /\ staleTicked' = TRUE
  /\ UNCHANGED <<comp, appVars, mounted, unmounted, propVars, selectedTypes, dimensions,
                 domVars, viewVars, alpha, alphaTarget, simRunning, ticks,
                 anchor, pos, fx, staleSims, dragVars, uiVars, reloads>>

\* a simulation that was never stopped cools down and stops by itself
staleSimEnds ==
  /\ staleSims > 0
  /\ staleSims' = staleSims - 1
  /\ UNCHANGED <<comp, appVars, mounted, unmounted, propVars, selectedTypes, dimensions,
                 domVars, viewVars, alpha, alphaTarget, simRunning, ticks,
                 anchor, pos, fx, staleTicked, dragVars, uiVars, reloads>>

----------------------------------------------------------------------------
(* Pointer events on the rendered nodes.  A node of the svg at index i is
   bound to node i of the simulation of the effect run that drew it. *)

onSurface(i) == mounted /\ i \in DOMAIN svgNodes /\ i \in DOMAIN pos

\* d3-drag "start" (FNG lines 256-260, NG 226-230, GV 100-104): event.active
\* counts the gestures already in progress; event.x of the start is d.x
dragstarted(p, i) ==
  /\ onSurface(i) /\ drags[p] = 0
  /\ drags' = [drags EXCEPT ![p] = i]
  /\ IF active(drags) = 0
     THEN \* simulation.alphaTarget(0.3).restart()
          /\ alphaTarget' = alphaTargetDrag
          /\ simRunning' = TRUE
          /\ heldTicks' = 0
     ELSE UNCHANGED <<alphaTarget, simRunning, heldTicks>>
  /\ fx' = [fx EXCEPT ![i] = pos[i]]
  /\ lastPtr' = [lastPtr EXCEPT ![i] = pos[i]]
  /\ UNCHANGED <<comp, appVars, mounted, unmounted, propVars, selectedTypes, dimensions,
                 domVars, viewVars, alpha, ticks, anchor, pos, staleSims,
                 staleTicked, uiVars, reloads>>

\* d3-drag "drag" (FNG lines 261-264, NG 232-235, GV 105-108)
dragged(p, x) ==
  /\ mounted /\ drags[p] # 0
  /\ fx' = [fx EXCEPT ![drags[p]] = x]
  /\ lastPtr' = [lastPtr EXCEPT ![drags[p]] = x]
  /\ UNCHANGED <<comp, appVars, mounted, unmounted, propVars, selectedTypes, dimensions,
                 domVars, viewVars, alpha, alphaTarget, simRunning, ticks,
                 anchor, pos, staleSims, staleTicked, drags, heldTicks, uiVars,
                 reloads>>

\* d3-drag "end" (FNG lines 265-269, NG 237-241, GV 109-113): event.active
\* counts the gestures that remain
dragended(p) ==
  /\ mounted /\ drags[p] # 0
  /\ drags' = [drags EXCEPT ![p] = 0]
  /\ alphaTarget' = IF active(drags') = 0 THEN 0 ELSE alphaTarget
  /\ fx' = [fx EXCEPT ![drags[p]] = NoPos]
  /\ UNCHANGED <<comp, appVars, mounted, unmounted, propVars, selectedTypes, dimensions,
                 domVars, viewVars, alpha, simRunning, ticks, anchor, pos,
                 staleSims, staleTicked, lastPtr, heldTicks, uiVars, reloads>>

\* The pointer enters a node that it is not over yet.  FNG lines 327-334:
\* setHoveredNode(d) and restyle; NG lines 174-180 only restyle
mouseenter(i) ==
  /\ onSurface(i) /\ comp \in {"FNG", "NG"} /\ entered = <<>>
  /\ hoveredNode' = IF comp = "FNG" THEN <<svgNodes[i]>> ELSE hoveredNode
  /\ circles' = [circles EXCEPT ![i] = hoverCircle(svgNodes[i], circles[i])]
  /\ entered' = <<[i |-> i, c |-> circles[i]]>>
  /\ UNCHANGED <<comp, appVars, mounted, unmounted, propVars, selectedTypes, dimensions,
                 svgNodes, svgEdges, crashed, warnings, viewVars, simVars,
                 dragVars, selectedNode, lastClicked, lastClick, reloads>>

\* The pointer leaves the node it is over.  FNG lines 335-342:
\* setHoveredNode(null) and restyle; NG lines 181-187 only restyle
mouseleave(i) ==
  /\ onSurface(i) /\ comp \in {"FNG", "NG"}
  /\ entered # <<>> /\ entered[1].i = i
  /\ hoveredNode' = IF comp = "FNG" THEN <<>> ELSE hoveredNode
  /\ circles' = [circles EXCEPT ![i] = leftCircle(svgNodes[i], circles[i])]
  /\ entered' = <<>>
  /\ UNCHANGED <<comp, appVars, mounted, unmounted, propVars, selectedTypes, dimensions,
                 svgNodes, svgEdges, crashed, warnings, viewVars, simVars,
                 dragVars, selectedNode, lastClicked, lastClick, reloads>>

\* a click on a node: FNG lines 343-345 call onNodeClick(d); NG lines 170-173
\* setSelectedNode(d) and call onNodeClick(d); GraphView has no handler
nodeClick(i) ==
  /\ onSurface(i)
  /\ lastClick' = "node"
  /\ selectedNode' = IF comp = "NG" THEN <<svgNodes[i]>> ELSE selectedNode
  /\ lastClicked' = IF comp \in {"FNG", "NG"} THEN <<svgNodes[i]>>
                    ELSE lastClicked
  /\ UNCHANGED <<comp, appVars, mounted, unmounted, propVars, selectedTypes, dimensions,
                 domVars, viewVars, simVars, dragVars, hoveredNode, reloads>>

\* a click on the svg outside every node: no component registers a handler
canvasClick ==
  /\ mounted
  /\ lastClick' = "canvas"
  /\ UNCHANGED <<comp, appVars, mounted, unmounted, propVars, selectedTypes, dimensions,
                 domVars, viewVars, simVars, dragVars, hoveredNode,
                 selectedNode, lastClicked, reloads>>

\* NG lines 307-312: the x button of the Selected Node Info panel
closeSelected ==
  /\ comp = "NG" /\ mounted /\ selectedNode # <<>>
  /\ selectedNode' = <<>>
  /\ lastClick' = "close"
  /\ UNCHANGED <<comp, appVars, mounted, unmounted, propVars, selectedTypes, dimensions,
                 domVars, viewVars, simVars, dragVars, hoveredNode,
                 lastClicked, reloads>>

----------------------------------------------------------------------------
(* The components around the graphs.  Each of the specifications below runs
   one of them; the variables of the others keep their initial values. *)

graphVars == <<mounted, unmounted, propVars, selectedTypes, dimensions,
               domVars, viewVars, simVars, dragVars, uiVars, reloads>>

----------------------------------------------------------------------------
(* PredictionAnalysis (SearchHistory.tsx): the search history and its copy
   in localStorage under 'neurograph-history' *)

\* Date.now() is read at most this many times
MaxClock == 22
\* handleDeleteHistoryItem is called at most this many times
MaxDeletes == 2

\* prev.slice(0, 19) of line 169
keptOnAdd == 19

\* a HistoryItem: Date.now() is its id and its timestamp
newItem(now) == [id |-> now, timestamp |-> now]

\* JSON.stringify turns the Date into its ISO string (line 158) ...
stringify(h) ==
  [i \in DOMAIN h |-> [id |-> h[i].id, timestamp |-> <<"iso", h[i].timestamp>>]]
\* ... and the load effect makes a Date of the string again (lines 147-151)
parse(s) ==
  [i \in DOMAIN s |-> [id |-> s[i].id, timestamp |-> s[i].timestamp[2]]]

\* lines 156-160: the save effect, run after every change of history
saved(h, st) == IF Len(h) > 0 THEN <<stringify(h)>> ELSE st

\* lines 162-171
addToHistory ==
  /\ comp = "SH" /\ clock < MaxClock
  /\ clock' = clock + 1
  /\ history' = <<newItem(clock')>> \o SubSeq(history, 1, Min(Len(history), keptOnAdd))
  /\ stored' = saved(history', stored)
  /\ UNCHANGED <<comp, graphVars, deletes, ddvVars, keVars>>

\* lines 183-185, then the save effect
handleDeleteHistoryItem(id) ==
  /\ comp = "SH" /\ deletes < MaxDeletes
  /\ \E i \in DOMAIN history : history[i].id = id
  /\ deletes' = deletes + 1
  /\ history' = SelectSeq(history, LAMBDA item : item.id # id)
  /\ stored' = saved(history', stored)
  /\ UNCHANGED <<comp, graphVars, clock, ddvVars, keVars>>

\* lines 178-181: setHistory([]) and removeItem; the save effect then sees
\* an empty list
handleClearHistory ==
  /\ comp = "SH"
  /\ history' = <<>>
  /\ stored' = saved(history', <<>>)
  /\ UNCHANGED <<comp, graphVars, clock, deletes, ddvVars, keVars>>

\* The page is loaded again: useState([]) (line 139), the load effect (lines
\* 143-153), the save effect on what was loaded
pageReload ==
  /\ comp = "SH"
  /\ history' = IF stored = <<>> THEN <<>> ELSE parse(stored[1])
  /\ stored' = saved(history', stored)
  /\ UNCHANGED <<comp, graphVars, clock, deletes, ddvVars, keVars>>

InitHist == history = <<>> /\ stored = <<>> /\ clock = 0 /\ deletes = 0

----------------------------------------------------------------------------
(* DiseaseDetailView (App.tsx lines 559-706); the list of App.tsx line 454
   changes its diseaseId prop while it stays mounted (line 477, no key) *)

Diseases == {"dA", "dB"}
Tabs == {"treatments", "network"}

\* lines 579-588: the condition under which the network effect, run after
\* every change of its dependencies, starts a request
fetchStarts(tab, nd, nl) == tab = "network" /\ nd = <<>> /\ ~nl

\* the network effect on the state (tab, nd, nl) of disease d
networkEffect(d, tab, nd, nl) ==
  IF fetchStarts(tab, nd, nl)
  THEN /\ networkLoading' = TRUE
       /\ netPending' = <<d>>
  ELSE /\ networkLoading' = nl
       /\ netPending' = netPending

\* the tab bar is rendered (lines 590-591)
tabsShown == ~loading /\ data # <<>>

\* App.tsx line 454: another disease is picked; both effects run, the main
\* one (lines 567-576) starts a request
selectDisease(d) ==
  /\ comp = "DDV" /\ d # diseaseId
  /\ diseaseId' = d
  /\ loading' = TRUE
  /\ mainPending' = mainPending \cup {d}
  /\ networkEffect(d, activeTab, networkData, networkLoading)
  /\ UNCHANGED <<comp, graphVars, histVars, data, activeTab, networkData,
                 keVars>>

\* lines 569-575: a /diseases/<id> request ends
mainResponse(d, ok) ==
  /\ comp = "DDV" /\ d \in mainPending
  /\ mainPending' = mainPending \ {d}
  /\ data' = IF ok THEN <<d>> ELSE data
  /\ loading' = FALSE
  /\ UNCHANGED <<comp, graphVars, histVars, diseaseId, activeTab, networkData,
                 networkLoading, netPending, keVars>>

\* a tab button is clicked; the network effect runs
setActiveTab(tab) ==
  /\ comp = "DDV" /\ tabsShown /\ tab # activeTab
  /\ activeTab' = tab
  /\ networkEffect(diseaseId, tab, networkData, networkLoading)
  /\ UNCHANGED <<comp, graphVars, histVars, diseaseId, loading, data,
                 mainPending, networkData, keVars>>

\* lines 582-587: the getFullNetwork request ends; the network effect runs
\* on the new state
netResponse(ok) ==
  /\ comp = "DDV" /\ netPending # <<>>
  /\ networkData' = IF ok THEN <<netPending[1]>> ELSE networkData
  /\ IF fetchStarts(activeTab, networkData', FALSE)
     THEN networkLoading' = TRUE /\ netPending' = <<diseaseId>>
     ELSE networkLoading' = FALSE /\ netPending' = <<>>
  /\ UNCHANGED <<comp, graphVars, histVars, diseaseId, loading, data,
                 mainPending, activeTab, keVars>>

\* lines 677-706: the network tab shows the graph of networkData
graphShown ==
  tabsShown /\ activeTab = "network" /\ ~networkLoading /\ networkData # <<>>

\* the state after the mount for the first disease: lines 560-564 and the
\* first run of the main effect
InitDDV ==
  /\ diseaseId = "dA" /\ loading = TRUE /\ data = <<>>
  /\ mainPending = {"dA"} /\ activeTab = "treatments"
  /\ networkData = <<>> /\ networkLoading = FALSE /\ netPending = <<>>

----------------------------------------------------------------------------
(* KnowledgeExplorer, the Explore tab (lines 173-179, 260-299, 636-712) *)

Examples == {"metformin", "aspirin"}
Queries == {"q1", "q2"}

\* pending timeouts per example and pending searches per query are
\* counted up to these
MaxTimers == 1
MaxSearches == 1

\* the input's onChange (line 667); "" stands for every text that trim()
\* empties
setCustomSearch(text) ==
  /\ comp = "KE" /\ text # customSearch
  /\ customSearch' = text
  /\ UNCHANGED <<comp, graphVars, histVars, ddvVars, selectedExample,
                 isLoading, customGraph, isCustomMode, timers, searches>>

\* lines 260-270: a click on an example card (line 642)
handleExampleSelect(id) ==
  /\ comp = "KE" /\ timers[id] < MaxTimers
  /\ ~(id = selectedExample /\ ~isCustomMode)
  /\ isLoading' = TRUE
  /\ isCustomMode' = FALSE
  /\ customGraph' = <<>>
  /\ timers' = [timers EXCEPT ![id] = @ + 1]
  /\ UNCHANGED <<comp, graphVars, histVars, ddvVars, selectedExample,
                 customSearch, searches>>

\* lines 266-269: a timeout of handleExampleSelect fires
exampleTimer(id) ==
  /\ comp = "KE" /\ timers[id] > 0
  /\ timers' = [timers EXCEPT ![id] = @ - 1]
  /\ selectedExample' = id
  /\ isLoading' = FALSE
  /\ UNCHANGED <<comp, graphVars, histVars, ddvVars, customSearch,
                 customGraph, isCustomMode, searches>>

\* lines 272-285: Enter in the input (line 668) or the Generate button (line
\* 674), up to the await
handleCustomSearch(byKey) ==
  /\ comp = "KE" /\ customSearch # ""
  /\ byKey \/ ~isLoading      \* line 675: the button is disabled while loading
  /\ searches[customSearch] < MaxSearches
  /\ isLoading' = TRUE
  /\ isCustomMode' = TRUE
  /\ searches' = [searches EXCEPT ![customSearch] = @ + 1]
  /\ UNCHANGED <<comp, graphVars, histVars, ddvVars, selectedExample,
                 customSearch, customGraph, timers>>

\* lines 285-292: the two requests of a search for q end
searchSettles(q, ok) ==
  /\ comp = "KE" /\ searches[q] > 0
  /\ searches' = [searches EXCEPT ![q] = @ - 1]
  /\ customGraph' = IF ok THEN <<q>> ELSE customGraph
  /\ isLoading' = FALSE
  /\ UNCHANGED <<comp, graphVars, histVars, ddvVars, selectedExample,
                 customSearch, isCustomMode, timers>>

\* line 295: the graph handed to NetworkGraph: <<"custom", q>> or
\* <<"example", id>>
currentGraph ==
  IF isCustomMode /\ customGraph # <<>> THEN <<"custom", customGraph[1]>>
  ELSE <<"example", selectedExample>>

InitKE ==
  /\ selectedExample = "metformin" /\ isLoading = FALSE
  /\ customSearch = "" /\ customGraph = <<>> /\ isCustomMode = FALSE
  /\ timers = [id \in Examples |-> 0]
  /\ searches = [q \in Queries |-> 0]

InitApp == InitHist /\ InitDDV /\ InitKE

----------------------------------------------------------------------------
(* Specifications *)

Comps == {"FNG", "NG", "GV"}

InitComp(cs) ==
  /\ comp \in cs
  /\ mounted = FALSE /\ unmounted = FALSE
  /\ nodes = <<>> /\ edges = <<>> /\ centerNode = NoHint
  /\ path = <<>> /\ pathKind = "null"
  /\ selectedTypes = {}
  /\ dimensions = InitWidth
  /\ svgNodes = <<>> /\ svgEdges = <<>>
  /\ circles = <<>> /\ entered = <<>>
  /\ crashed = FALSE /\ warnings = 0
  /\ zoomReady = FALSE /\ k = zoomIdentity /\ gk = zoomIdentity
  /\ fitPending = FALSE /\ staleFits = 0
  /\ alpha = alphaInit /\ alphaTarget = 0 /\ simRunning = FALSE /\ ticks = 0
  /\ anchor = 0 /\ pos = <<>> /\ fx = <<>>
  /\ staleSims = 0 /\ staleTicked = FALSE
  /\ drags = NoDrags /\ lastPtr = <<>> /\ heldTicks = 0
  /\ hoveredNode = <<>> /\ selectedNode = <<>> /\ lastClicked = <<>>
  /\ lastClick = "none"
  /\ reloads = 0
  /\ InitApp
\* snapshots a reload brings in
ReloadNodeLists == {<<>>, ScenarioNodes}
ReloadEdgeLists == {<<>>, ScenarioEdges}
ScenarioPath ==
  << [id |-> "1", name |-> "a", label |-> ""], PathRel,
     [id |-> "2", name |-> "b", label |-> ""] >>
ReloadPaths == {<<>>, ScenarioPath}
\* GraphNode records; NetworkGraph reads no isCenter field
NG_NodeRecs == [id : NodeIds, type : Types, isCenter : {FALSE}]
NG_NodeLists == SeqsUpTo(NG_NodeRecs, MaxNodes)

\* Spec: the graph each component builds from its input
Init == InitComp(Comps)

Next ==
  \/ MountFNG(NodeLists, EdgeLists, {NoHint, "1"})
  \/ MountNG(NG_NodeLists, EdgeLists)
  \/ MountGV({"array", "null", "other"}, Paths)
  \/ SetPropsFNG(ReloadNodeLists, ReloadEdgeLists)
  \/ SetPropsNG(ReloadNodeLists, ReloadEdgeLists)
  \/ SetPropsGV({"array"}, ReloadPaths)
  \/ \E t \in Types : toggleType(t)
  \/ staleSimEnds

Spec == Init /\ [][Next]_vars

\* SpecView: the viewport of FullNetworkGraph and NetworkGraph
InitView == InitComp({"FNG", "NG"})

NextView ==
  \/ MountFNG(ReloadNodeLists, {ScenarioEdges}, {NoHint})
  \/ MountNG(ReloadNodeLists, {ScenarioEdges})
  \/ SetPropsFNG(ReloadNodeLists, {ScenarioEdges})
  \/ SetPropsNG(ReloadNodeLists, {ScenarioEdges})
  \/ \E t \in Types : toggleType(t)
  \/ handleZoomIn
  \/ handleZoomOut
  \/ handleReset
  \/ \E f \in GestureFactors : zoomGesture(f)
  \/ initialFit
  \/ staleFit

SpecView == InitView /\ [][NextView]_vars

\* SpecSim: the cooling of the simulation, no drag
InitSim == InitComp(Comps)

\* connected, disconnected, single-node and empty graphs
SimNodeLists == {<<>>, <<ScenarioNodes[1]>>, ScenarioNodes}
SimEdgeLists == {<<>>, ScenarioEdges}
SimPaths == {<<>>, <<ScenarioPath[1]>>, ScenarioPath}

NextSim ==
  \/ MountFNG(SimNodeLists, SimEdgeLists, {NoHint})
  \/ MountNG(SimNodeLists, SimEdgeLists)
  \/ MountGV({"array"}, SimPaths)
  \/ simTick

\* d3's timer calls step() on every animation frame while it is scheduled
SpecSim == InitSim /\ [][NextSim]_vars /\ WF_vars(simTick)

\* SpecDrag: drag gestures of up to two pointers on one snapshot
MaxDragTicks == 2

InitDrag == InitComp(Comps)

dragTick == simTick /\ ticks < MaxDragTicks

NextDrag ==
  \/ MountFNG({ScenarioNodes}, {ScenarioEdges}, {NoHint})
  \/ MountNG({ScenarioNodes}, {ScenarioEdges})
  \/ MountGV({"array"}, {ScenarioPath})
  \/ \E p \in Pointers, i \in 1..MaxNodes : dragstarted(p, i)
  \/ \E p \in Pointers, x \in PointerXs : dragged(p, x)
  \/ \E p \in Pointers : dragended(p)
  \/ dragTick

SpecDrag == InitDrag /\ [][NextDrag]_vars

\* SpecHeat: reheating.  Gestures begin within the first MaxLeadTicks ticks of
\* a simulation, while another gesture is held, or once the simulation has
\* stopped (up to MaxReheatTicks ticks); at most MaxHoldTicks ticks pass while
\* gestures are held.
MaxLeadTicks == 1
MaxHoldTicks == 2
MaxReheatTicks == 300

InitHeat == InitComp({"FNG", "GV"})

heatStart(p, i) ==
  /\ \/ active(drags) > 0
     \/ ticks < MaxLeadTicks
     \/ ~simRunning /\ ticks < MaxReheatTicks
  /\ dragstarted(p, i)

heatTick == simTick /\ (active(drags) = 0 \/ heldTicks < MaxHoldTicks)

NextHeat ==
  \/ MountFNG({ScenarioNodes}, {ScenarioEdges}, {NoHint})
  \/ MountGV({"array"}, {ScenarioPath})
  \/ \E p \in Pointers, i \in 1..MaxNodes : heatStart(p, i)
  \/ \E p \in Pointers : dragended(p)
  \/ heatTick

SpecHeat == InitHeat /\ [][NextHeat]_vars /\ WF_vars(heatTick)

\* SpecLife: the life cycle of one component: snapshots replaced, filters
\* toggled, the wrapper resized, the component unmounted, while the timers run
MaxLifeTicks == 2

InitLife == InitComp(Comps)

lifeTick == simTick /\ ticks < MaxLifeTicks

NextLife ==
  \/ MountFNG({ScenarioNodes}, {ScenarioEdges}, {NoHint})
  \/ MountNG({ScenarioNodes}, {ScenarioEdges})
  \/ MountGV({"array"}, {ScenarioPath})
  \/ SetPropsFNG(ReloadNodeLists, {ScenarioEdges})
  \/ SetPropsNG(ReloadNodeLists, {ScenarioEdges})
  \/ SetPropsGV({"array"}, ReloadPaths)
  \/ \E t \in Types : toggleType(t)
  \/ \E w \in Widths : handleResize(w)
  \/ Unmount
  \/ lifeTick
  \/ staleSimTick
  \/ staleSimEnds

SpecLife == InitLife /\ [][NextLife]_vars

\* SpecUI: clicks, hover, one pointer's drag and the viewport on one snapshot
InitUI == InitComp(Comps)

NextUI ==
  \/ MountFNG({ScenarioNodes}, {ScenarioEdges}, {NoHint})
  \/ MountNG({ScenarioNodes}, {ScenarioEdges})
  \/ MountGV({"array"}, {ScenarioPath})
  \/ \E i \in 1..MaxNodes : nodeClick(i)
  \/ canvasClick
  \/ closeSelected
  \/ \E i \in 1..MaxNodes : mouseenter(i)
  \/ \E i \in 1..MaxNodes : mouseleave(i)
  \/ \E i \in 1..MaxNodes : dragstarted("p1", i)
  \/ dragged("p1", "xA")
  \/ dragended("p1")
  \/ dragTick

SpecUI == InitUI /\ [][NextUI]_vars

\* SpecPhys: the viewport controls while the first node is clicked, hovered,
\* dragged and the simulation ticks
MaxPhysTicks == 1

InitPhys == InitComp({"FNG", "NG"})

\* the filter is chosen before the viewport is touched
physToggle == toggleType("disease") /\ ticks = 0 /\ k = zoomIdentity /\ gk = k

physTick == simTick /\ ticks < MaxPhysTicks

NextPhys ==
  \/ MountFNG({ScenarioNodes}, {ScenarioEdges}, {NoHint})
  \/ MountNG({ScenarioNodes}, {ScenarioEdges})
  \/ physToggle
  \/ nodeClick(1)
  \/ mouseenter(1)
  \/ dragstarted("p1", 1)
  \/ dragended("p1")
  \/ physTick
  \/ handleZoomIn
  \/ handleZoomOut
  \/ handleReset
  \/ zoomGesture(<<2, 1>>)

SpecPhys == InitPhys /\ [][NextPhys]_vars

\* SpecStyle: FullNetworkGraph over graphs whose categories and relations
\* are StyleTypes and StyleRels
StyleNodeRecs == [id : NodeIds, type : StyleTypes, isCenter : {FALSE}]
StyleEdgeRecs == [source : NodeIds, target : NodeIds, relationship : StyleRels]
StyleNodeLists == SeqsUpTo(StyleNodeRecs, MaxNodes)
StyleEdgeLists == SeqsUpTo(StyleEdgeRecs, MaxEdges)

InitStyle == InitComp({"FNG"})

NextStyle ==
  \/ MountFNG(StyleNodeLists, StyleEdgeLists, {NoHint})
  \/ \E t \in StyleTypes : toggleType(t)

SpecStyle == InitStyle /\ [][NextStyle]_vars

\* SpecHover: the pointer enters and leaves the node circles of
\* FullNetworkGraph and NetworkGraph; NetworkGraph nodes carry a val
HoverVals == {0, 2}
HoverNodeRecs ==
  [id : NodeIds, type : {"drug"}, isCenter : {FALSE}, val : HoverVals]
HoverNodeLists == SeqsUpTo(HoverNodeRecs, MaxNodes)

InitHover == InitComp({"FNG", "NG"})

NextHover ==
  \/ MountFNG(NodeLists, {<<>>}, {NoHint})
  \/ MountNG(HoverNodeLists, {<<>>})
  \/ SetPropsNG({ScenarioNodes}, {<<>>})
  \/ \E t \in Types : toggleType(t)
  \/ \E i \in 1..MaxNodes : mouseenter(i) \/ mouseleave(i)

SpecHover == InitHover /\ [][NextHover]_vars

\* SpecNorm: the render effect runs again on the inputs it ran on before (the
\* parent renders again and hands over arrays with the same content)
InitNorm == InitComp({"FNG", "GV"})

rebuildFNG == SetPropsFNG({nodes}, {edges})
rebuildGV == SetPropsGV({pathKind}, {path})

NextNorm ==
  \/ MountFNG(NodeLists, EdgeLists, {NoHint})
  \/ MountGV({"array", "null"}, Paths)
  \/ \E t \in Types : toggleType(t)
  \/ rebuildFNG
  \/ rebuildGV

SpecNorm == InitNorm /\ [][NextNorm]_vars

\* SpecStale: FullNetworkGraph and NetworkGraph while the pointer is over a
\* node or a node is selected, and the snapshot is replaced, the filter is
\* toggled or the window is resized
OtherNodes == <<[id |-> "1", type |-> "drug", isCenter |-> FALSE]>>
StaleNodeLists == {<<>>, ScenarioNodes, OtherNodes}

InitStale == InitComp({"FNG", "NG"})

\* the sidebar buttons are clicked with the pointer, which has left the
\* canvas by then
sidebarToggle(t) == entered = <<>> /\ toggleType(t)

NextStale ==
  \/ MountFNG({ScenarioNodes}, {ScenarioEdges}, {NoHint})
  \/ MountNG({ScenarioNodes}, {ScenarioEdges})
  \/ SetPropsFNG(StaleNodeLists, {<<>>})
  \/ SetPropsNG(StaleNodeLists, {<<>>})
  \/ \E t \in Types : sidebarToggle(t)
  \/ \E w \in Widths : handleResize(w)
  \/ \E i \in 1..MaxNodes : mouseenter(i) \/ mouseleave(i) \/ nodeClick(i)
  \/ closeSelected

SpecStale == InitStale /\ [][NextStale]_vars

\* SpecHist: the search history of PredictionAnalysis
InitHistory == InitComp({"SH"})

NextHistory ==
  \/ addToHistory
  \/ \E id \in 1..MaxClock : handleDeleteHistoryItem(id)
  \/ handleClearHistory
  \/ pageReload

SpecHist == InitHistory /\ [][NextHistory]_vars

\* SpecDisease: DiseaseDetailView while the disease changes
InitDisease == InitComp({"DDV"})

NextDisease ==
  \/ \E d \in Diseases : selectDisease(d)
  \/ \E d \in Diseases, ok \in BOOLEAN : mainResponse(d, ok)
  \/ \E tab \in Tabs : setActiveTab(tab)
  \/ \E ok \in BOOLEAN : netResponse(ok)

SpecDisease == InitDisease /\ [][NextDisease]_vars

\* SpecExplore: the Explore tab of KnowledgeExplorer
InitExplore == InitComp({"KE"})

NextExplore ==
  \/ \E text \in Queries \cup {""} : setCustomSearch(text)
  \/ \E id \in Examples : handleExampleSelect(id)
  \/ \E id \in Examples : exampleTimer(id)
  \/ \E byKey \in BOOLEAN : handleCustomSearch(byKey)
  \/ \E q \in Queries, ok \in BOOLEAN : searchSettles(q, ok)

SpecExplore == InitExplore /\ [][NextExplore]_vars

----------------------------------------------------------------------------
(* Claims *)

C1_ScaleInRange ==
  /\ comp = "FNG" => (20 <= k /\ k <= 400)
  /\ comp = "NG" => (30 <= k /\ k <= 400)

C1_Clamp(lo, hi, s) == IF s < lo THEN lo ELSE IF s > hi THEN hi ELSE s

C1_Clamped ==
  LET lo == IF comp = "FNG" THEN 20 ELSE 30
  IN /\ handleZoomIn => k' = C1_Clamp(lo, 400, (k * 13) \div 10)
     /\ handleZoomOut => k' = C1_Clamp(lo, 400, (k * 7) \div 10)
     /\ \A f \in GestureFactors :
          zoomGesture(f) => k' = C1_Clamp(lo, 400, (k * f[1]) \div f[2])

\* C1: in FullNetworkGraph and NetworkGraph the viewport scale stays within
\* [0.2, 4] resp. [0.3, 4] after any sequence of zoomIn, zoomOut, resetView,
\* gestures and the delayed initial fit, and a zoom request beyond a bound
\* ends exactly on the bound.
C1_Containment == [](C1_ScaleInRange) /\ [][C1_Clamped]_vars

\* a zoom-in at the upper bound was answered by the bound, after the initial
\* fit was applied
C1_Witness ==
  /\ comp = "FNG" /\ mounted /\ zoomReady
  /\ k = 400 /\ ~fitPending

C2_Rendered == comp = "FNG" /\ mounted /\ nodes # <<>>

C2_Shown(V) == {i \in DOMAIN nodes : nodes[i].type \in V \/ nodes[i].isCenter}

C2_Joined(V) ==
  {i \in DOMAIN edges :
     \E a, b \in C2_Shown(V) : edges[i].source = nodes[a].id /\ edges[i].target = nodes[b].id}

C3_Scenario == comp = "FNG" /\ mounted /\ nodes = ScenarioNodes /\ edges = ScenarioEdges

C3_DiseaseToggledOff ==
  (C3_Scenario /\ selectedTypes = {} /\ selectedTypes' = {"disease"}
     /\ nodes' = nodes /\ edges' = edges)
  => (Len(svgNodes') = 1 /\ svgNodes'[1].isCenter /\ Len(svgEdges') = 0)

\* C3: with a center drug "1" and a disease "2" joined by one edge, the
\* initial filter state renders 2 entities and 1 relationship, and one
\* toggleType('disease') from it leaves exactly the center entity and no
\* relationship.
C3_ScenarioToggle ==
  /\ []((C3_Scenario /\ selectedTypes = {}) => (Len(svgNodes) = 2 /\ Len(svgEdges) = 1))
  /\ [][C3_DiseaseToggledOff]_vars

\* isCategoryVisible(c): the button of c shows it selected, and the filter
\* keeps the (non-center) entities of c
C4_isCategoryVisible(sel, c) == isSelected(sel, c)

C4_ToggleOnlyC ==
  \A c \in nodeTypes(nodes) :
    (comp = "FNG" /\ mounted /\ nodes' = nodes
       /\ selectedTypes' # selectedTypes
       /\ selectedTypes' = toggleType_Set(selectedTypes, c))
    => /\ C4_isCategoryVisible(selectedTypes', c) # C4_isCategoryVisible(selectedTypes, c)
       /\ \A d \in nodeTypes(nodes) \ {c} :
            C4_isCategoryVisible(selectedTypes', d) = C4_isCategoryVisible(selectedTypes, d)

\* C4: one toggle of category c flips the visibility of c and leaves the
\* visibility of every other category of the graph unchanged.
C4_ToggleFrame == [][C4_ToggleOnlyC]_vars

C5_Dangling(e) == e.source \notin Ids(nodes) \/ e.target \notin Ids(nodes)

C5_ValidEdges == {edges[i] : i \in {j \in DOMAIN edges : ~C5_Dangling(edges[j])}}

\* C5: when the edge list holds an edge whose source or target id is absent
\* from the node list, FullNetworkGraph and NetworkGraph drop that edge,
\* building the simulation raises no exception, and the entities and the
\* valid edges are still rendered.
C5_DanglingNonFatal ==
  (comp \in {"FNG", "NG"} /\ nodes # <<>> /\ selectedTypes = {}
     /\ \E i \in DOMAIN edges : C5_Dangling(edges[i]))
  => /\ ~crashed
     /\ mounted
     /\ svgNodes = nodes
     /\ {svgEdges[i] : i \in DOMAIN svgEdges} = C5_ValidEdges

\* C6: after normalization the number of collected warnings equals the
\* number of input edges with a dangling endpoint.
C6_WarningPerDrop ==
  (comp = "FNG" /\ mounted /\ nodes # <<>>)
  => warnings = Cardinality({i \in DOMAIN edges : C5_Dangling(edges[i])})

C7_Last(s, id) == CHOOSE i \in DOMAIN s : s[i].id = id /\ \A j \in DOMAIN s : s[j].id = id => j <= i

C7_UniqueLastWins(raw, out) ==
  \A id \in Ids(raw) :
    /\ Cardinality({j \in DOMAIN out : out[j].id = id}) = 1
    /\ \A j \in DOMAIN out : out[j].id = id => out[j] = raw[C7_Last(raw, id)]

\* the node objects of a path, in order, as the parser copies them
C7_PathNodes ==
  LET idx == {i \in DOMAIN path : i % 2 = 1 /\ validNode(path[i])}
      F[n \in 0..Len(path)] ==
        IF n = 0 THEN <<>>
        ELSE IF n \in idx THEN Append(F[n - 1], GV_node(path[n])) ELSE F[n - 1]
  IN F[Len(path)]

\* C7: when the raw input holds several records with the same id, the set
\* handed to the solver holds exactly one entity for that id, with the fields
\* of the last such record; for GraphView's path parser and for
\* FullNetworkGraph's node cloning.
C7_DedupLastWins ==
  /\ (comp = "FNG" /\ mounted /\ nodes # <<>> /\ selectedTypes = {})
       => C7_UniqueLastWins(nodes, svgNodes)
  /\ (comp = "GV" /\ mounted /\ pathKind = "array")
       => C7_UniqueLastWins(C7_PathNodes, svgNodes)

\* C8: with a center hint the entity whose id is the hint's is treated as
\* center (exempt from filtering, radius 25, isCenter) whatever its record
\* says; with no hint no entity is made center.
C8_HintIsCenter ==
  (comp = "FNG" /\ mounted /\ nodes # <<>>) =>
    /\ centerNode # NoHint =>
         \A i \in DOMAIN nodes :
           nodes[i].id = centerNode =>
             \E j \in DOMAIN svgNodes :
               /\ svgNodes[j].id = centerNode
               /\ svgNodes[j].isCenter
               /\ FNG_radius(svgNodes[j]) = 25
    /\ centerNode = NoHint =>
         \A j \in DOMAIN svgNodes :
           svgNodes[j].isCenter =>
             \E i \in DOMAIN nodes : nodes[i].id = svgNodes[j].id /\ nodes[i].isCenter

\* C9: in every rendered snapshot at most one entity is treated as center.
C9_AtMostOneCenter ==
  (comp = "FNG" /\ mounted /\ nodes # <<>>) =>
    Cardinality({svgNodes[j].id : j \in {i \in DOMAIN svgNodes : svgNodes[i].isCenter}}) <= 1

C10_Cooling ==
  /\ (simRunning /\ ticks = 0) => alpha = 100000
  /\ simRunning => (ticks < 500 /\ alpha >= 100)
  /\ (~simRunning /\ ticks > 0) => (alpha < 100 /\ ticks <= 500)

\* C10: with no drag in progress the solver's alpha starts at 1, strictly
\* decreases on every tick, and falls below the convergence threshold 0.001,
\* at which point no further tick is scheduled, within 500 ticks of the
\* solver's creation; for connected, disconnected and empty graphs alike.
C10_Convergence ==
  /\ [](C10_Cooling)
  /\ [][ticks' # ticks => (ticks' = ticks + 1 /\ alpha' < alpha)]_vars
  /\ (simRunning ~> (~simRunning /\ alpha < 100))

\* a solver of a two-entity graph without relationships has converged
C10_Witness ==
  /\ ~simRunning /\ ticks > 0 /\ ticks <= 500 /\ alpha < 100
  /\ Len(svgNodes) = 2 /\ svgEdges = <<>>

held(i) == \E p \in Pointers : drags[p] = i

C11_Pinned == \A i \in DOMAIN fx : (fx[i] # NoPos) <=> held(i)

C11_AtPointer == \A i \in DOMAIN fx : fx[i] # NoPos => fx[i] = lastPtr[i]

\* C11: after any sequence of drag start / move / end events on the nodes of
\* one snapshot, a node has fx exactly when a drag gesture holds it, and its
\* fx is then the latest position the drag delivered.
C11_DragDeterminism == C11_Pinned /\ C11_AtPointer

\* number of pointers that hold a node
C12_Held == Cardinality({p \in Pointers : drags[p] # 0})

C12_Target ==
  alphaTarget = IF C12_Held > 0 THEN alphaTargetDrag ELSE 0

C12_HeldKeepsRunning == C12_Held > 0 => simRunning

C12_Restart ==
  \A p \in Pointers, i \in 1..MaxNodes :
    dragstarted(p, i) /\ C12_Held = 0 => simRunning'

C12_LastEndOnly ==
  \A p \in Pointers :
    dragended(p) => alphaTarget' = IF C12_Held = 1 THEN 0 ELSE alphaTargetDrag

C12_Decays == (simTick /\ C12_Held = 0) => alpha' < alpha

\* C12: the alpha target is 0.3 exactly while some drag gesture is held and 0
\* otherwise; a drag that starts when none is held restarts the timer even
\* after convergence; the simulation does not stop while a gesture is held;
\* only the end of the last held gesture returns the target to 0, after which
\* alpha decays until the simulation stops or is reheated.
C12_Reheating ==
  /\ [](C12_Target /\ C12_HeldKeepsRunning)
  /\ [][C12_Restart /\ C12_LastEndOnly /\ C12_Decays]_vars
  /\ (simRunning /\ C12_Held = 0) ~> (~simRunning \/ C12_Held > 0)

\* a stopped simulation was restarted by a drag, a second gesture joined and
\* the first one ended: the simulation ticks with target 0.3
C12_Witness ==
  /\ ticks > MaxReheatTicks - 10 /\ simRunning
  /\ C12_Held = 1 /\ heldTicks > 0 /\ drags["p1"] = 0
  /\ alphaTarget = alphaTargetDrag

\* C13: in each component, once the snapshot is replaced or the component is
\* unmounted, the simulation of the previous snapshot ticks no more, and at
\* most one simulation per mounted component has a scheduled timer.
C13_Cancellation ==
  /\ ~staleTicked
  /\ staleSims + (IF simRunning THEN 1 ELSE 0) <= 1
  /\ unmounted => (~simRunning /\ staleSims = 0)

C14_UserZoom ==
  \/ handleZoomIn
  \/ handleZoomOut
  \/ handleReset
  \/ \E f \in GestureFactors : zoomGesture(f)

C14_Reloaded == reloads' # reloads \/ selectedTypes' # selectedTypes

\* the rendered scale is one that only a user's zoom produces
C14_UserScale == gk = k /\ gk \notin {zoomIdentity, fitScale}

\* C14: when the user has zoomed to a transform and a new snapshot arrives or
\* a filter is toggled, the transform applied to the rendered geometry is the
\* same after the reload as before, and it stays so until the user's next
\* zoom, pan or reset.
C14_TransformSurvives ==
  /\ [][(C14_UserScale /\ C14_Reloaded) => gk' = gk]_vars
  /\ [][(C14_UserScale /\ ~C14_UserZoom) => gk' = gk]_vars

\* C15: a resize over a drawn snapshot keeps the simulation: alpha, alpha target, timer, positions
\* and pins are what they were, and only the anchor of the centering force
\* moves, to half the new width.
C15_ResizeKeepsSolver ==
  [][\A w \in Widths :
       (handleResize(w) /\ w # dimensions /\ nodes # <<>>) =>
         /\ UNCHANGED <<alpha, alphaTarget, simRunning, ticks, pos, fx>>
         /\ anchor' = w \div 2]_vars

\* C16: a filter toggle keeps the position of every entity that is visible
\* before and after it.
C16_PositionsSurvive ==
  [][\A t \in Types :
       toggleType(t) =>
         \A i \in DOMAIN svgNodes, j \in DOMAIN svgNodes' :
           svgNodes[i].id = svgNodes'[j].id => pos'[j] = pos[i]]_vars

\* C17: whenever the current snapshot has no entity, the surface shows no
\* entity and no relationship.
C17_EmptyShowsNothing ==
  LET empty == \/ comp \in {"FNG", "NG"} /\ nodes = <<>>
               \/ comp = "GV" /\ pathKind = "array" /\ path = <<>>
  IN (mounted /\ empty) => (svgNodes = <<>> /\ svgEdges = <<>>)

\* C18: a simulation exists only for a non-empty set of entities.
C18_NoSolverOnEmpty == simRunning => Len(pos) > 0

C19_ClickSelects ==
  \A i \in 1..MaxNodes :
    nodeClick(i) =>
      /\ comp \in {"FNG", "NG"} => lastClicked' = <<svgNodes[i]>>
      /\ comp = "NG" => selectedNode' = <<svgNodes[i]>>

C19_CanvasClears == lastClick = "canvas" => selectedNode = <<>>

C19_HoverDragKeep ==
  (\/ \E i \in 1..MaxNodes : mouseenter(i) \/ mouseleave(i)
   \/ \E p \in Pointers, i \in 1..MaxNodes : dragstarted(p, i)
   \/ \E p \in Pointers, x \in PointerXs : dragged(p, x)
   \/ \E p \in Pointers : dragended(p))
  => UNCHANGED <<selectedNode, lastClicked>>

\* C19: a click on an entity makes it the selected entity and calls
\* onNodeClick with it; a click on the empty canvas clears the selection;
\* hover and drag events leave the selection alone.
C19_Selection ==
  /\ [](C19_CanvasClears)
  /\ [][C19_ClickSelects /\ C19_HoverDragKeep]_vars

C20_UserZoom ==
  \/ handleZoomIn
  \/ handleZoomOut
  \/ handleReset
  \/ zoomGesture(<<2, 1>>)

C21_Nodes ==
  \A i \in DOMAIN svgNodes :
    LET n == svgNodes[i]
    IN /\ fillRef(n) \in definedGradients
       /\ fillRef(n) = gradientId(IF n.type \in NodeColorKeys THEN n.type
                                  ELSE "default")
       /\ getNodeColor(n.type) \in NodeColorKeys
       /\ glyph(n.type) \in GlyphKeys \cup {"bullet"}

C21_Edges ==
  \A i \in DOMAIN svgEdges :
    LET e == svgEdges[i]
    IN /\ markerRef(e) \in definedMarkers
       /\ markerRef(e) = markerId(IF e.relationship \in EdgeColorKeys
                                  THEN e.relationship ELSE "default")
       /\ getEdgeColor(e.relationship) \in EdgeColorKeys

\* C21: for every category and relation string, each attribute applied to a
\* rendered node or edge of FullNetworkGraph resolves to a defined entry, the
\* table entry on an exact match and the default otherwise; no element
\* references a gradient or marker id that is not defined.
C21_StyleTotal == comp = "FNG" => (C21_Nodes /\ C21_Edges)

C22_CenterStandsOut ==
  comp = "FNG" =>
    \A i \in DOMAIN circles :
      /\ svgNodes[i].isCenter =>
            /\ circles[i].glow
            /\ \A j \in DOMAIN circles :
                 ~svgNodes[j].isCenter => circles[i].r > circles[j].r
      /\ ~svgNodes[i].isCenter =>
            (circles[i].glow <=> (entered # <<>> /\ entered[1].i = i))

C22_Restored ==
  \A i \in 1..MaxNodes : mouseleave(i) => circles'[i] = entered[1].c

\* C22: after the pointer entered and then left a node, the radius and the
\* glow of its circle are exactly as before the pointer entered, in
\* FullNetworkGraph and in NetworkGraph for every val, missing or 0 too; the
\* center entity of FullNetworkGraph keeps its glow and its larger radius in
\* every hover state, and a non-center entity glows only while hovered.
C22_HoverRoundTrip == [](C22_CenterStandsOut) /\ [][C22_Restored]_vars

C23_Entities ==
  [i \in DOMAIN svgNodes |->
     IF comp = "GV" THEN <<svgNodes[i].id, svgNodes[i].name>>
     ELSE <<svgNodes[i].id, svgNodes[i].type>>]

C23_Relations ==
  [i \in DOMAIN svgEdges |->
     <<svgEdges[i].source, svgEdges[i].target,
       IF comp = "GV" THEN svgEdges[i].label ELSE svgEdges[i].relationship>>]

C24_HoverCurrent ==
  (comp = "FNG" /\ mounted /\ hoveredNode # <<>>)
  => \E i \in DOMAIN svgNodes : svgNodes[i].id = hoveredNode[1].id

C24_SelectionCurrent ==
  (comp = "NG" /\ mounted /\ selectedNode # <<>>)
  => \E i \in DOMAIN nodes : nodes[i].id = selectedNode[1].id

\* C24: the hovered node of FullNetworkGraph is null or a node that is
\* currently rendered, and the selected node of NetworkGraph is null or a
\* node of the current data, also after the snapshot was replaced, the
\* filter was toggled or the window was resized.
C24_NeverStale == C24_HoverCurrent /\ C24_SelectionCurrent

C27_FilterPresent ==
  (comp = "FNG" /\ selectedTypes # {}) => selectedTypes \subseteq nodeTypes(nodes)

C27_SomethingDrawn ==
  (comp = "FNG" /\ mounted /\ nodes # <<>>
     /\ \A i \in DOMAIN nodes : ~nodes[i].isCenter)
  => svgNodes # <<>>

\* C27: whenever the filter set of FullNetworkGraph is not empty it holds
\* only categories present in the current node list, so a non-empty snapshot
\* without a center entity never renders zero entities because of selections
\* made on an earlier snapshot.
C27_FilterFollowsData == C27_FilterPresent /\ C27_SomethingDrawn

\* since the latest run of the render effect the user has zoomed to a scale
\* that no timer and no reset produces
C25_UserZoomed == fitPending /\ gk = k /\ k \notin {zoomIdentity, fitScale}

C25_StaleFitInert == staleFit => UNCHANGED <<k, gk>>

C25_FitKeepsUserZoom == (initialFit /\ C25_UserZoomed) => UNCHANGED <<k, gk>>

\* C25: the fit timer of a run of the render effect never changes the
\* viewport transform after that run was cleaned up, and never overwrites a
\* zoom the user performed while it was pending.
C25_FitTimerScoped == [][C25_StaleFitInert /\ C25_FitKeepsUserZoom]_vars

\* C26: in NetworkGraph and FullNetworkGraph the transform of the rendered
\* container equals the zoom transform stored on the svg element in every
\* reachable state, in particular right after the render effect ran again.
C26_RenderedIsStored ==
  (comp \in {"FNG", "NG"} /\ mounted /\ zoomReady) => gk = k

C28_Persisted == history = (IF stored = <<>> THEN <<>> ELSE parse(stored[1]))

C28_Capped == Len(history) <= 20

C28_NewestFirst ==
  \A i, j \in DOMAIN history : i < j => history[i].timestamp > history[j].timestamp

\* C28: after any sequence of addToHistory, handleDeleteHistoryItem and
\* handleClearHistory, each followed by the save effect, the list persisted
\* under 'neurograph-history' equals the list in memory, so a deleted item
\* never reappears after a reload, also when it was the only one; the list
\* holds at most 20 items, newest first.
C28_HistoryPersisted ==
  comp = "SH" => (C28_Persisted /\ C28_Capped /\ C28_NewestFirst)

\* C29: whenever the network tab of DiseaseDetailView displays a loaded
\* graph, that graph was fetched for the current diseaseId, also after the
\* disease changed while the network of the disease before was loaded or
\* still loading.
C29_GraphOfCurrentDisease ==
  (comp = "DDV" /\ graphShown) => networkData[1] = diseaseId

C30_PendingShowsLoading ==
  (\E q \in Queries : searches[q] > 0) => isLoading

C30_CustomShowsCustom ==
  (isCustomMode /\ ~isLoading) => currentGraph[1] = "custom"

\* C30: while a handleCustomSearch request of KnowledgeExplorer is pending,
\* isLoading is true whatever example cards were clicked before; and when
\* custom mode is on and loading is off, the displayed graph is the custom
\* graph, never an example graph under the custom title.
C30_LoadingConsistent ==
  comp = "KE" => (C30_PendingShowsLoading /\ C30_CustomShowsCustom)

=============================================================================
